---- MODULE Spec2Model ----
(***************************************************************************)
(* State-machine model of iits.py: the SimulationManager (orchestrator),   *)
(* its IoTDevice workers, the BruteForceAttack and DDoSAttack workers, the *)
(* two threading.Timer activations scheduled by run(), the main() thread   *)
(* with KeyboardInterrupt delivery, and a second thread of control that    *)
(* calls the public SimulationManager.stop().                              *)
(*                                                                         *)
(* Time is wall-clock seconds.  A sleeping thread or a timer wakes no       *)
(* earlier than its delay; it may wake later (thread scheduling gives no   *)
(* upper bound).  The clock is observed at the instants at which a pending *)
(* wait expires.  The pacing sleeps of the workers are not timed: a worker *)
(* may take its next step at any moment.                                   *)
(***************************************************************************)
EXTENDS Integers, Sequences, FiniteSets, TLC

\* ------------------------------------------------------------------ bounds
MaxTime       == 20   \* the clock is not followed past this instant
MaxInterrupts == 1    \* KeyboardInterrupts delivered to the main thread
MaxExtStops   == 1    \* stop() calls made by the second thread of control
MaxStops      == 1    \* stop() calls made on the single actor
MaxFaults     == 1    \* publish calls of the publish flood that raise

\* ------------------------------------------------------- program constants
StabilizationDelay == 10   \* time.sleep(10) in run()
MonitorSleep       == 1    \* time.sleep(1) in the monitoring loop
AttackDuration     == 60   \* config.get("bruteforce_duration", 60) / ddos_duration
BatchCap           == 10   \* range(min(10, self.rate // 10)) in _flood_connections
PoolSize           == 5    \* range(5) in _flood_publish
TopicCount         == 10   \* range(10) topics in _flood_publish
BruteMilestone     == 10   \* password_attempts % 10 == 0
ConnMilestone      == 50   \* operations_count % 50 == 0
PubMilestone       == 100  \* operations_count % 100 == 0

\* --------------------------------------------------------------- the inputs
Durations    == {16, 40}     \* --duration (multiples of 4: the delays are whole seconds)
DeviceCounts == {1, 2}       \* --devices
DdosTypes    == {"connection", "publish"}   \* --ddos-type choices

Devs    == 1..(CHOOSE n \in DeviceCounts : \A m \in DeviceCounts : m <= n)
Atks    == {"bf", "ddos"}
Callers == {"main", "ext"}

VARIABLES
  config,          \* SimulationManager.config
  now,             \* time.time()
  running,         \* SimulationManager.running
  start_time,      \* run()'s local start_time
  devices,         \* SimulationManager.devices: the device ids, in creation order
  attack_threads,  \* SimulationManager.attack_threads: the attack actors, in append order
  mainPc,          \* position of the main thread in main() / run()
  mainSleep,       \* seconds left of the main thread's current time.sleep
  stopPhase,       \* per caller: position inside SimulationManager.stop()
  stopIdx,         \* per caller: index of stop()'s current for loop
  extCalls,        \* stop() calls the second thread has made
  stopsDone,       \* 0: no stop() call has returned since run() began; 1: one has;
                   \* 2: a call that began after another had returned has returned too
  interrupts,      \* KeyboardInterrupts delivered so far
  timer,           \* per attack: state of the threading.Timer run() created
  timerLeft,       \* per attack: seconds left before the timer may fire
  dev,             \* per device: the IoTDevice and its worker thread
  atk              \* per attack: the attack actor and its worker thread

\* One actor looked at on its own, with its counters and connections: an
\* IoTDevice, a BruteForceAttack or a DDoSAttack in one of its two modes, the
\* worker thread that runs its start(), and a thread that calls its stop().
\* Its clock is counted in pacing sleeps of its loop (time.sleep(1) for the
\* floods, time.sleep(1 / rate) for the brute force attack).
VARIABLES
  kind,            \* which actor: "device", "bruteforce", "connection", "publish"
  rate,            \* self.rate
  budget,          \* the duration argument of start(), in pacing sleeps
  elapsed,         \* time.time() - start_time, in pacing sleeps
  wpc,             \* position of the worker thread inside start()
  wrun,            \* self.running of the actor
  count,           \* self.password_attempts / self.operations_count
  clients,         \* len(self.clients) of the DDoSAttack
  base_clients,    \* len(base_clients) of _flood_publish
  batchLeft,       \* passes left of the worker's current for loop
  open,            \* connections the actor has opened on which no close
                   \* (disconnect) has been called yet
  spc,             \* position of the stopping thread inside the actor's stop()
  sweepIdx,        \* index of the for loop of DDoSAttack.stop()
  stopCalls,       \* stop() calls made on the actor
  faults,          \* publish calls that raised so far
  progress,        \* the counter values of the progress lines logged, in order
  finals,          \* number of "finished" lines logged with the final count
  setupError,      \* "Could not establish connections ..." has been logged
  looped,          \* the worker has entered the body of its while loop
  didOp,           \* an operation has been counted
  cycle,           \* what the current pass of the while loop has done so far
  connack,         \* the broker's answer to the device's CONNECT, as the
                   \* network loop thread of the client has handled it
  subscribed,      \* client.subscribe(self.topic_sub) has been called
  published        \* client.publish(self.topic_pub, ...) has been called

simVars == <<config, now, running, start_time, devices, attack_threads, mainPc,
             mainSleep, stopPhase, stopIdx, extCalls, stopsDone, interrupts, timer,
             timerLeft, dev, atk>>

actorVars == <<kind, rate, budget, elapsed, wpc, wrun, count, clients, base_clients,
               batchLeft, open, spc, sweepIdx, stopCalls, faults, progress, finals,
               setupError, looped, didOp, cycle, connack, subscribed, published>>

\* The fields of the single-actor view that only a device's MQTT client uses.
netVars == <<connack, subscribed, published>>

vars == <<simVars, actorVars>>

\* A pass of a while loop that has done nothing yet: base is the counter at
\* its start, tried / ok the operations attempted / completed, raised whether
\* one of them raised out of the pass.
NoCycle(c) == [base |-> c, tried |-> 0, ok |-> 0, raised |-> FALSE]

\* The actor's fields as __init__ leaves them, the worker thread not yet
\* running, no stop() called.
ActorCreated(k) ==
  /\ elapsed = 0
  /\ wpc = "idle"
  /\ wrun = (k = "device")
  /\ count = 0
  /\ clients = 0
  /\ base_clients = 0
  /\ batchLeft = 0
  /\ open = 0
  /\ spc = "idle"
  /\ sweepIdx = 0
  /\ stopCalls = 0
  /\ faults = 0
  /\ progress = <<>>
  /\ finals = 0
  /\ setupError = FALSE
  /\ looped = FALSE
  /\ didOp = FALSE
  /\ cycle = NoCycle(0)
  /\ connack = "none"
  /\ subscribed = FALSE
  /\ published = FALSE

\* The orchestrator model leaves the single-actor view aside.
NoActor ==
  /\ kind = "none"
  /\ rate = 0
  /\ budget = 0
  /\ ActorCreated("none")

\* The configurations explored: main()'s config dict, with --ddos-type left at
\* its default when the DDoS attack is off; both attacks together are
\* explored with one device and the default flood type, the long duration
\* with one device and the brute force attack.
Configs ==
  {c \in [duration : Durations, devices : DeviceCounts,
          bruteforce : BOOLEAN, ddos : BOOLEAN, ddos_type : DdosTypes] :
     /\ (c.ddos \/ c.ddos_type = "connection")
     /\ (c.bruteforce /\ c.ddos => c.devices = 1 /\ c.ddos_type = "connection")
     /\ (c.duration = 40 => c.devices = 1 /\ c.bruteforce /\ ~c.ddos)}

\* An IoTDevice that create_devices() has not built yet.  pc is the position
\* of its worker thread, running its run-flag; signaled records that
\* the orchestrator's stop() has called stop() on it.
NoDevice == [pc |-> "absent", running |-> FALSE, signaled |-> FALSE]
\* An attack actor that its start_*_attack() has not built yet.  t0 is the
\* start_time of its loop; late records that it was built when the
\* orchestrator was already Stopped.
NoAttack == [pc |-> "none", running |-> FALSE, t0 |-> 0, signaled |-> FALSE,
             late |-> FALSE]

Init ==
  /\ config \in Configs
  /\ now = 0
  /\ running = FALSE
  /\ start_time = 0
  /\ devices = <<>>
  /\ attack_threads = <<>>
  /\ mainPc = "main"
  /\ mainSleep = 0
  /\ stopPhase = [c \in Callers |-> "idle"]
  /\ stopIdx = [c \in Callers |-> 0]
  /\ extCalls = 0
  /\ stopsDone = 0
  /\ interrupts = 0
  /\ timer = [a \in Atks |-> "none"]
  /\ timerLeft = [a \in Atks |-> 0]
  /\ dev = [d \in Devs |-> NoDevice]
  /\ atk = [a \in Atks |-> NoAttack]
  /\ NoActor

\* The process lives until main() returns or dies of an unhandled interrupt;
\* every worker and timer thread is a daemon thread and dies with it.
Alive == mainPc \notin {"exited", "crashed"}

\* The orchestrator's state-machine state Stopped: run() has begun, the
\* run-flag is cleared again and no stop() call is still signalling.
Stopped == mainPc # "main" /\ ~running /\ \A c \in Callers : stopPhase[c] = "idle"

\* stop() has returned at least once on the actor.
DevStopped(d) == dev[d].signaled \/ dev[d].pc \in {"done", "failed"}
AtkStopped(a) == atk[a].signaled


\* ------------------------------------------------------------------ clock
Enabled(a) == IF a = "bf" THEN config.bruteforce ELSE config.ddos

\* The waits in progress, each with the seconds it still has to go: the main
\* thread's time.sleep, the pending timers, the duration of a running attack.
Waits ==
  {mainSleep} \cup
  {timerLeft[a] : a \in {x \in Atks : timer[x] = "pending"}} \cup
  {atk[a].t0 + AttackDuration - now :
       a \in {x \in Atks : atk[x].pc \in {"loop", "body"} /\ atk[x].running}}

Min(S) == CHOOSE m \in S : \A n \in S : m <= n
Left(n, d) == IF n > d THEN n - d ELSE 0

\* Time passes until the next pending wait expires.
Tick ==
  /\ Alive
  /\ {w \in Waits : w > 0} # {}
  /\ LET d == Min({w \in Waits : w > 0}) IN
       /\ now + d <= MaxTime
       /\ now' = now + d
       /\ mainSleep' = Left(mainSleep, d)
       /\ timerLeft' = [a \in Atks |-> Left(timerLeft[a], d)]
  /\ UNCHANGED <<actorVars, config, running, start_time, devices, attack_threads, mainPc,
                 stopPhase, stopIdx, extCalls, stopsDone, interrupts, timer, dev, atk>>

\* ------------------------------------------------- SimulationManager.run()
\* run(): self.running = True; start_time = time.time()
RunBegin ==
  /\ mainPc = "main"
  /\ running' = TRUE
  /\ start_time' = now
  /\ mainPc' = "create"
  /\ stopsDone' = 0
  /\ UNCHANGED <<actorVars, config, now, devices, attack_threads, mainSleep, stopPhase,
                 stopIdx, extCalls, interrupts, timer, timerLeft, dev, atk>>

\* create_devices(): one pass of the for loop builds an IoTDevice (its
\* run-flag starts True) and appends it to self.devices.
CreateDevice ==
  /\ mainPc = "create"
  /\ LET d == Len(devices) + 1 IN
       /\ devices' = Append(devices, d)
       /\ dev' = [dev EXCEPT ![d] = [NoDevice EXCEPT !.pc = "created", !.running = TRUE]]
       /\ mainPc' = IF d = config.devices THEN "launch" ELSE "create"
  /\ UNCHANGED <<actorVars, config, now, running, start_time, attack_threads, mainSleep,
                 stopPhase, stopIdx, extCalls, stopsDone, interrupts, timer, timerLeft, atk>>

\* start_devices() walking the device list from its end.
StartDevice_Reverse ==
  /\ mainPc = "launch"
  /\ LET d == CHOOSE x \in 1..Len(devices) :
                 /\ dev[x].pc = "created"
                 /\ \A y \in (x + 1)..Len(devices) : dev[y].pc # "created" IN
       /\ dev' = [dev EXCEPT ![d].pc = "start"]
       /\ IF d = 1
            THEN mainPc' = "stabilize" /\ mainSleep' = StabilizationDelay
            ELSE UNCHANGED <<mainPc, mainSleep>>
  /\ UNCHANGED <<actorVars, config, now, running, start_time, devices, attack_threads,
                 stopPhase, stopIdx, extCalls, stopsDone, interrupts, timer, timerLeft, atk>>

\* start_devices(): one pass of the for loop starts the worker thread of the
\* next device, in list order; after the last one run() goes to time.sleep(10).
StartDevice ==
  /\ mainPc = "launch"
  /\ LET d == CHOOSE x \in 1..Len(devices) :
                 /\ dev[x].pc = "created"
                 /\ \A y \in 1..(x - 1) : dev[y].pc # "created" IN
       /\ dev' = [dev EXCEPT ![d].pc = "start"]
       /\ IF d = Len(devices)
            THEN mainPc' = "stabilize" /\ mainSleep' = StabilizationDelay
            ELSE UNCHANGED <<mainPc, mainSleep>>
  /\ UNCHANGED <<actorVars, config, now, running, start_time, devices, attack_threads,
                 stopPhase, stopIdx, extCalls, stopsDone, interrupts, timer, timerLeft, atk>>

\* Stabilize without the wait: run() goes on to the timers at once.
Stabilize_NoWait ==
  /\ mainPc = "stabilize"
  /\ mainPc' = "sched_bf"
  /\ UNCHANGED <<actorVars, config, now, running, start_time, devices, attack_threads, mainSleep,
                 stopPhase, stopIdx, extCalls, stopsDone, interrupts, timer, timerLeft, dev, atk>>

\* time.sleep(10) returns.
Stabilize ==
  /\ mainPc = "stabilize"
  /\ mainSleep = 0
  /\ mainPc' = "sched_bf"
  /\ UNCHANGED <<actorVars, config, now, running, start_time, devices, attack_threads, mainSleep,
                 stopPhase, stopIdx, extCalls, stopsDone, interrupts, timer, timerLeft, dev, atk>>

\* delay = duration * 0.25 for the brute force attack, duration * 0.5 for the DDoS.
Delay(a) == IF a = "bf" THEN (config.duration * 25) \div 100
                        ELSE (config.duration * 50) \div 100

\* run(): if the attack is configured, threading.Timer(delay, start_..._attack).start()
ScheduleAttack(a) ==
  /\ mainPc = (IF a = "bf" THEN "sched_bf" ELSE "sched_ddos")
  /\ IF Enabled(a)
       THEN /\ timer' = [timer EXCEPT ![a] = "pending"]
            /\ timerLeft' = [timerLeft EXCEPT ![a] = Delay(a)]
       ELSE UNCHANGED <<timer, timerLeft>>
  /\ mainPc' = (IF a = "bf" THEN "sched_ddos" ELSE "monitor")
  /\ UNCHANGED <<actorVars, config, now, running, start_time, devices, attack_threads, mainSleep,
                 stopPhase, stopIdx, extCalls, stopsDone, interrupts, dev, atk>>

\* The monitoring loop's test: while time.time() < end_time and self.running;
\* a passed test ends in time.sleep(1), a failed one in the finally block.
Monitor ==
  /\ mainPc = "monitor"
  /\ IF now < start_time + config.duration /\ running
       THEN mainPc' = "monitor_sleep" /\ mainSleep' = MonitorSleep
       ELSE mainPc' = "run_finally" /\ UNCHANGED mainSleep
  /\ UNCHANGED <<actorVars, config, now, running, start_time, devices, attack_threads,
                 stopPhase, stopIdx, extCalls, stopsDone, interrupts, timer, timerLeft, dev, atk>>

\* time.sleep(1) returns.
MonitorWake ==
  /\ mainPc = "monitor_sleep"
  /\ mainSleep = 0
  /\ mainPc' = "monitor"
  /\ UNCHANGED <<actorVars, config, now, running, start_time, devices, attack_threads, mainSleep,
                 stopPhase, stopIdx, extCalls, stopsDone, interrupts, timer, timerLeft, dev, atk>>


\* ------------------------------------------------ SimulationManager.stop()
\* Where the main thread goes when its stop() call returns: run()'s finally
\* block is followed by main()'s finally block, main()'s by the end of main().
AfterStop(pc) == IF pc = "run_finally" THEN "main_finally" ELSE "exited"

\* The places stop() is called from: run()'s finally block and main()'s
\* finally block for the main thread; any moment for the second thread.
AtStopCall(c) ==
  /\ Alive
  /\ stopPhase[c] = "idle"
  /\ IF c = "main" THEN mainPc \in {"run_finally", "main_stop"}
                   ELSE extCalls < MaxExtStops

\* stop() without its guard "if not self.running: return".
StopEnter_NoGuard(c) ==
  /\ AtStopCall(c)
  /\ extCalls' = IF c = "ext" THEN extCalls + 1 ELSE extCalls
  /\ stopPhase' = [stopPhase EXCEPT ![c] = "dev"]
  /\ stopIdx' = [stopIdx EXCEPT ![c] = 1]
  /\ UNCHANGED <<actorVars, config, now, running, start_time, devices, attack_threads, mainPc,
                 mainSleep, stopsDone, interrupts, timer, timerLeft, dev, atk>>

\* stop() is entered: "if not self.running: return", else the device loop begins.
StopEnter(c) ==
  /\ AtStopCall(c)
  /\ extCalls' = IF c = "ext" THEN extCalls + 1 ELSE extCalls
  /\ IF ~running
       THEN /\ mainPc' = IF c = "main" THEN AfterStop(mainPc) ELSE mainPc
            /\ stopsDone' = IF stopsDone = 0 THEN 1 ELSE 2
            /\ UNCHANGED <<stopPhase, stopIdx>>
       ELSE /\ stopPhase' = [stopPhase EXCEPT ![c] = "dev"]
            /\ stopIdx' = [stopIdx EXCEPT ![c] = 1]
            /\ UNCHANGED <<mainPc, stopsDone>>
  /\ UNCHANGED <<actorVars, config, now, running, start_time, devices, attack_threads, mainSleep,
                 interrupts, timer, timerLeft, dev, atk>>

\* IoTDevice.stop(): self.running = False; loop_stop(); disconnect()
DeviceStop(d, signal) ==
  [dev EXCEPT ![d].running = FALSE,
              ![d].signaled = signal \/ @]

\* BruteForceAttack.stop() / DDoSAttack.stop(): self.running = False
\* (DDoSAttack.stop() also disconnects and drops its client list)
AttackStop(a) ==
  [atk EXCEPT ![a].running = FALSE, ![a].signaled = TRUE]

\* "for device in self.devices: device.stop()": one pass of the loop; the
\* list iterator ends when its index has passed the list's current length.
StopDevice(c) ==
  /\ Alive
  /\ stopPhase[c] = "dev"
  /\ IF stopIdx[c] <= Len(devices)
       THEN /\ dev' = DeviceStop(devices[stopIdx[c]], TRUE)
            /\ stopIdx' = [stopIdx EXCEPT ![c] = @ + 1]
            /\ UNCHANGED stopPhase
       ELSE /\ stopPhase' = [stopPhase EXCEPT ![c] = "atk"]
            /\ stopIdx' = [stopIdx EXCEPT ![c] = 1]
            /\ UNCHANGED dev
  /\ UNCHANGED <<actorVars, config, now, running, start_time, devices, attack_threads, mainPc,
                 mainSleep, extCalls, stopsDone, interrupts, timer, timerLeft, atk>>

\* "for _, attack in self.attack_threads: attack.stop()": one pass of the loop.
StopAttack(c) ==
  /\ Alive
  /\ stopPhase[c] = "atk"
  /\ IF stopIdx[c] <= Len(attack_threads)
       THEN /\ atk' = AttackStop(attack_threads[stopIdx[c]])
            /\ stopIdx' = [stopIdx EXCEPT ![c] = @ + 1]
            /\ UNCHANGED stopPhase
       ELSE /\ stopPhase' = [stopPhase EXCEPT ![c] = "clear"]
            /\ stopIdx' = [stopIdx EXCEPT ![c] = 0]
            /\ UNCHANGED atk
  /\ UNCHANGED <<actorVars, config, now, running, start_time, devices, attack_threads, mainPc,
                 mainSleep, extCalls, stopsDone, interrupts, timer, timerLeft, dev>>

\* StopClear with a shutdown that also cancels the timers still pending.
StopClear_CancelTimers(c) ==
  /\ Alive
  /\ stopPhase[c] = "clear"
  /\ running' = FALSE
  /\ stopPhase' = [stopPhase EXCEPT ![c] = "idle"]
  /\ mainPc' = IF c = "main" THEN AfterStop(mainPc) ELSE mainPc
  /\ stopsDone' = IF stopsDone = 0 THEN 1 ELSE stopsDone
  /\ timer' = [a \in Atks |-> IF timer[a] = "pending" THEN "cancelled" ELSE timer[a]]
  /\ UNCHANGED <<actorVars, config, now, start_time, devices, attack_threads, mainSleep, stopIdx,
                 extCalls, interrupts, timerLeft, dev, atk>>

\* "self.running = False" and the return of stop().
StopClear(c) ==
  /\ Alive
  /\ stopPhase[c] = "clear"
  /\ running' = FALSE
  /\ stopPhase' = [stopPhase EXCEPT ![c] = "idle"]
  /\ mainPc' = IF c = "main" THEN AfterStop(mainPc) ELSE mainPc
  /\ stopsDone' = IF stopsDone = 0 THEN 1 ELSE stopsDone
  /\ UNCHANGED <<actorVars, config, now, start_time, devices, attack_threads, mainSleep, stopIdx,
                 extCalls, interrupts, timer, timerLeft, dev, atk>>

\* ------------------------------------------------------------------ main()
\* main()'s finally block: "if hasattr(manager, 'running') and manager.running:
\* manager.stop()", then main() returns and the process ends.
MainFinally ==
  /\ mainPc = "main_finally"
  /\ mainPc' = IF running THEN "main_stop" ELSE "exited"
  /\ UNCHANGED <<actorVars, config, now, running, start_time, devices, attack_threads, mainSleep,
                 stopPhase, stopIdx, extCalls, stopsDone, interrupts, timer, timerLeft, dev, atk>>

\* Where a KeyboardInterrupt takes the main thread.  Before run()'s try block
\* (device setup, time.sleep(10), scheduling) and inside run()'s finally block
\* it leaves run() and reaches main()'s except clause and finally block;
\* inside run()'s try block run() catches it and runs its finally block;
\* inside main()'s finally block nothing catches it.
InterruptTarget(pc) ==
  IF pc \in {"create", "launch", "stabilize", "sched_bf", "sched_ddos", "run_finally"}
    THEN "main_finally"
  ELSE IF pc \in {"monitor", "monitor_sleep"} THEN "run_finally"
  ELSE "crashed"

\* A KeyboardInterrupt is raised in the main thread; a stop() call it was
\* executing is abandoned where it stood.
Interrupt ==
  /\ Alive
  /\ mainPc # "main"
  /\ interrupts < MaxInterrupts
  /\ interrupts' = interrupts + 1
  /\ mainPc' = InterruptTarget(mainPc)
  /\ mainSleep' = 0
  /\ stopPhase' = [stopPhase EXCEPT !["main"] = "idle"]
  /\ stopIdx' = [stopIdx EXCEPT !["main"] = 0]
  /\ UNCHANGED <<actorVars, config, now, running, start_time, devices, attack_threads,
                 extCalls, stopsDone, timer, timerLeft, dev, atk>>

\* ------------------------------- start_bruteforce_attack / start_ddos_attack
\* The timer fires: the attack actor is built (its run-flag starts False),
\* (thread, attack) is appended to self.attack_threads, the worker is started.
TimerFire(a) ==
  /\ Alive
  /\ timer[a] = "pending"
  /\ timerLeft[a] = 0
  /\ Enabled(a)
  /\ timer' = [timer EXCEPT ![a] = "fired"]
  /\ atk' = [atk EXCEPT ![a] = [NoAttack EXCEPT !.pc = "start", !.late = Stopped]]
  /\ attack_threads' = Append(attack_threads, a)
  /\ UNCHANGED <<actorVars, config, now, running, start_time, devices, mainPc, mainSleep,
                 stopPhase, stopIdx, extCalls, stopsDone, interrupts, timerLeft, dev>>


\* ---------------------------------------------------------- IoTDevice.start()
\* DeviceExit with a fault that also clears the run-flag of every other device.
DeviceExit_Spreading(d, faulted) ==
  [e \in DOMAIN dev |->
     IF e = d
       THEN [DeviceStop(d, FALSE)[d] EXCEPT !.pc = IF faulted THEN "failed" ELSE "done"]
       ELSE IF faulted THEN [dev[e] EXCEPT !.running = FALSE] ELSE dev[e]]

\* What the worker's "finally: self.stop()" leaves behind.
DeviceExit(d, faulted) ==
  [DeviceStop(d, FALSE) EXCEPT ![d].pc = IF faulted THEN "failed" ELSE "done"]

\* "while self.running": a passed test puts the worker in the loop body, a
\* failed one takes it out through "finally: self.stop()".
DeviceTest(d) ==
  IF dev[d].running THEN [dev EXCEPT ![d].pc = "body"] ELSE DeviceExit(d, FALSE)

\* client.connect(); client.loop_start(): either it raises and the worker ends
\* through except/finally, or it succeeds and the worker tests its run-flag.
DevConnect(d) ==
  /\ Alive
  /\ dev[d].pc = "start"
  /\ \/ dev' = DeviceExit(d, TRUE)
     \/ dev' = DeviceTest(d)
  /\ UNCHANGED <<actorVars, config, now, running, start_time, devices, attack_threads, mainPc,
                 mainSleep, stopPhase, stopIdx, extCalls, stopsDone, interrupts, timer, timerLeft, atk>>

\* One pass of the loop: publish_data() and time.sleep(randint(3, 8)), then
\* the next test of the run-flag; or an exception, which ends the worker
\* through except/finally.
DevPublish(d) ==
  /\ Alive
  /\ dev[d].pc = "body"
  /\ \/ dev' = DeviceExit(d, TRUE)
     \/ dev' = DeviceTest(d)
  /\ UNCHANGED <<actorVars, config, now, running, start_time, devices, attack_threads, mainPc,
                 mainSleep, stopPhase, stopIdx, extCalls, stopsDone, interrupts, timer, timerLeft, atk>>

\* ------------------------------ BruteForceAttack.start() / DDoSAttack.start()
\* start(): self.running = True, the counter is reset, start_time = time.time();
\* the publish flood first builds its connection pool.
AtkStart(a) ==
  /\ Alive
  /\ atk[a].pc = "start"
  /\ atk' = [atk EXCEPT ![a].running = TRUE,
                        ![a].t0 = now,
                        ![a].pc = IF a = "ddos" /\ config.ddos_type = "publish"
                                    THEN "setup" ELSE "loop"]
  /\ UNCHANGED <<actorVars, config, now, running, start_time, devices, attack_threads, mainPc,
                 mainSleep, stopPhase, stopIdx, extCalls, stopsDone, interrupts, timer, timerLeft, dev>>

\* _flood_publish(): the pool of 5 connections is built; with none of them
\* established the method logs the error and returns, and start() ends.
AtkSetup(a) ==
  /\ Alive
  /\ atk[a].pc = "setup"
  /\ \/ atk' = [atk EXCEPT ![a].pc = "loop"]
     \/ atk' = [atk EXCEPT ![a].pc = "failed", ![a].t0 = 0]
  /\ UNCHANGED <<actorVars, config, now, running, start_time, devices, attack_threads, mainPc,
                 mainSleep, stopPhase, stopIdx, extCalls, stopsDone, interrupts, timer, timerLeft, dev>>

\* What the end of start() leaves behind: BruteForceAttack.start() clears the
\* run-flag in its finally block, DDoSAttack.start() leaves it as it is; the
\* local start_time is gone.
AttackExit(a, faulted) ==
  [atk EXCEPT ![a].pc = IF faulted THEN "failed" ELSE "done",
              ![a].running = IF a = "bf" THEN FALSE ELSE @,
              ![a].t0 = 0]

\* "while self.running and time.time() - start_time < duration"
AttackTest(a) ==
  IF atk[a].running /\ now - atk[a].t0 < AttackDuration
    THEN [atk EXCEPT ![a].pc = "body"]
    ELSE AttackExit(a, FALSE)

\* The first test of the loop condition.
AtkLoop(a) ==
  /\ Alive
  /\ atk[a].pc = "loop"
  /\ atk' = AttackTest(a)
  /\ UNCHANGED <<actorVars, config, now, running, start_time, devices, attack_threads, mainPc,
                 mainSleep, stopPhase, stopIdx, extCalls, stopsDone, interrupts, timer, timerLeft, dev>>

\* One pass of the loop (one login attempt, one batch of connections, one
\* round of publishes, each of them succeeding or failing) with its sleep, then
\* the next test of the loop condition.  An exception in the brute force body
\* ends the attack through except/finally; the floods swallow theirs and go on
\* to the next cycle.
AtkBody(a) ==
  /\ Alive
  /\ atk[a].pc = "body"
  /\ \/ atk' = AttackTest(a)
     \/ a = "bf" /\ atk' = AttackExit(a, TRUE)
  /\ UNCHANGED <<actorVars, config, now, running, start_time, devices, attack_threads, mainPc,
                 mainSleep, stopPhase, stopIdx, extCalls, stopsDone, interrupts, timer, timerLeft, dev>>

\* ------------------------------------------------------------ specification
\* The steps of the program as main() runs it: the main thread, the timers,
\* the workers, the clock.
MainStep ==
  \/ Tick
  \/ RunBegin
  \/ CreateDevice
  \/ StartDevice
  \/ Stabilize
  \/ \E a \in Atks : ScheduleAttack(a)
  \/ Monitor
  \/ MonitorWake
  \/ StopEnter("main")
  \/ StopDevice("main")
  \/ StopAttack("main")
  \/ StopClear("main")
  \/ MainFinally
  \/ Interrupt
  \/ \E a \in Atks : TimerFire(a)
  \/ \E d \in Devs : DevConnect(d)
  \/ \E d \in Devs : DevPublish(d)
  \/ \E a \in Atks : AtkStart(a)
  \/ \E a \in Atks : AtkSetup(a)
  \/ \E a \in Atks : AtkLoop(a)
  \/ \E a \in Atks : AtkBody(a)

\* The steps of a second thread of control calling SimulationManager.stop().
ExtStep ==
  \/ StopEnter("ext")
  \/ StopDevice("ext")
  \/ StopAttack("ext")
  \/ StopClear("ext")

Next == MainStep \/ ExtStep

\* The program with an explicit stop() from a second thread of control.
Spec == Init /\ [][Next]_vars

\* The program as main() runs it, without a second caller of stop().
SpecMain == Init /\ [][MainStep]_vars

\* ============================================================ a single actor
Kinds   == {"device", "bruteforce", "connection", "publish"}
Rates   == {0, 5, 10, 25, 200}   \* --bruteforce-rate / --ddos-rate
Budgets == {1, 2, 12}            \* start(duration), in pacing sleeps

\* The rc that on_connect receives: 0 when the broker accepts the connection,
\* 5 (not authorised) as the refusal explored.
ReturnCodes == {0, 5}

\* The single actors explored: an IoTDevice (no rate, no duration), a brute
\* force attack long enough to log progress, with a rate and with rate 0, a
\* connection flood with batches of 0, 2 and 10 connections, a publish flood.
ActorInputs ==
  {i \in [kind : Kinds, rate : Rates, budget : Budgets] :
     \/ i.kind = "device" /\ i.rate = 0 /\ i.budget = 1
     \/ i.kind = "bruteforce" /\ i.rate \in {0, 10} /\ i.budget = 12
     \/ i.kind = "connection" /\ i.rate \in {5, 25, 200} /\ i.budget \in {1, 2}
     \/ i.kind = "publish" /\ i.rate = 200 /\ i.budget \in {1, 2}}

\* The orchestrator model at rest while a single actor is looked at: no
\* program is running around the actor.
SimIdle ==
  /\ config = [duration |-> 16, devices |-> 1, bruteforce |-> FALSE,
               ddos |-> FALSE, ddos_type |-> "connection"]
  /\ now = 0
  /\ running = FALSE
  /\ start_time = 0
  /\ devices = <<>>
  /\ attack_threads = <<>>
  /\ mainPc = "exited"
  /\ mainSleep = 0
  /\ stopPhase = [c \in Callers |-> "idle"]
  /\ stopIdx = [c \in Callers |-> 0]
  /\ extCalls = 0
  /\ stopsDone = 0
  /\ interrupts = 0
  /\ timer = [a \in Atks |-> "none"]
  /\ timerLeft = [a \in Atks |-> 0]
  /\ dev = [d \in Devs |-> NoDevice]
  /\ atk = [a \in Atks |-> NoAttack]

InitActor ==
  /\ SimIdle
  /\ \E i \in ActorInputs :
       /\ kind = i.kind
       /\ rate = i.rate
       /\ budget = i.budget
       /\ ActorCreated(i.kind)

\* min(10, self.rate // 10): the connections attempted in one cycle.
Batch == Min({BatchCap, rate \div 10})

\* A cycle in which only one pooled client publishes.
CycleSize_OneClient == TopicCount

\* len(base_clients) * len(topics): the publish calls of one complete cycle.
CycleSize == base_clients * TopicCount

\* The progress test at the end of a pass: "if counter % m == 0: logger.info".
Logged(c, m) == IF c % m = 0 THEN Append(progress, c) ELSE progress

\* The worker thread enters start().  The attacks set self.running = True and
\* zero their counter; the brute force attack and _flood_connections then read
\* start_time, _flood_publish reads it and goes on to build its pool.
WStart ==
  /\ kind # "none"
  /\ wpc = "idle"
  /\ wrun' = (kind # "device" \/ wrun)
  /\ count' = 0
  /\ elapsed' = 0
  /\ wpc' = CASE kind = "device" -> "connect"
              [] kind = "publish" -> "setup"
              [] OTHER -> "test"
  /\ batchLeft' = IF kind = "publish" THEN PoolSize ELSE 0
  /\ UNCHANGED <<simVars, netVars, kind, rate, budget, clients, base_clients, open, spc,
                 sweepIdx, stopCalls, faults, progress, finals, setupError, looped,
                 didOp, cycle>>

\* An end of start() whose finally block leaves the run-flag alone.
Finish_KeepsFlag ==
  /\ wpc' = "returned"
  /\ wrun' = wrun
  /\ finals' = IF kind = "device" THEN finals ELSE finals + 1
  /\ open' = IF kind = "device" THEN 0 ELSE open

\* How start() ends once the loop is over.  IoTDevice: "finally: self.stop()"
\* (run-flag off, disconnect).  BruteForceAttack: "finally: self.running =
\* False" and the line with the final count.  DDoSAttack: the "finished" line
\* of start(); the run-flag is left as it is.
Finish ==
  /\ wpc' = "returned"
  /\ wrun' = IF kind \in {"device", "bruteforce"} THEN FALSE ELSE wrun
  /\ finals' = IF kind = "device" THEN finals ELSE finals + 1
  /\ open' = IF kind = "device" THEN 0 ELSE open

\* The test of the while loop: "while self.running" for the device, "while
\* self.running and time.time() - start_time < duration" for the attacks.  A
\* passed test begins a pass of the loop; a failed one leaves the loop, and
\* the publish flood goes on to close its pool.
LoopTest ==
  /\ wpc = "test"
  /\ IF wrun /\ (kind = "device" \/ elapsed < budget)
       THEN /\ wpc' = "body"
            /\ looped' = TRUE
            /\ cycle' = NoCycle(count)
            /\ batchLeft' = IF kind = "connection" THEN Batch ELSE 0
            /\ UNCHANGED <<wrun, finals, open>>
       ELSE /\ IF kind = "publish"
                 THEN /\ wpc' = "cleanup"
                      /\ batchLeft' = base_clients
                      /\ UNCHANGED <<wrun, finals, open>>
                 ELSE Finish /\ UNCHANGED batchLeft
            /\ UNCHANGED <<looped, cycle>>
  /\ UNCHANGED <<simVars, netVars, kind, rate, budget, elapsed, count, clients, base_clients,
                 spc, sweepIdx, stopCalls, faults, progress, setupError, didOp>>

\* IoTDevice.start(): client.connect() and loop_start().  connect() sends the
\* CONNECT packet and returns; the broker's answer is left to the network
\* loop thread that loop_start() creates.  A connect that raises ends the
\* worker through except / finally.
DeviceConnect ==
  /\ kind = "device"
  /\ wpc = "connect"
  /\ \/ wpc' = "test" /\ open' = 1 /\ connack' = "pending" /\ UNCHANGED <<wrun, finals>>
     \/ Finish /\ UNCHANGED connack
  /\ UNCHANGED <<simVars, subscribed, published, kind, rate, budget, elapsed, count, clients, base_clients,
                 batchLeft, spc, sweepIdx, stopCalls, faults, progress, setupError,
                 looped, didOp, cycle>>

\* The network loop thread of the device's client handles the broker's answer
\* and calls on_connect(rc): "if rc == 0: client.subscribe(self.topic_sub)",
\* else only an error line.  The thread runs from loop_start() to the
\* loop_stop() of IoTDevice.stop().
OnConnect ==
  /\ kind = "device"
  /\ open = 1
  /\ connack = "pending"
  /\ \E rc \in ReturnCodes :
       /\ connack' = IF rc = 0 THEN "accepted" ELSE "refused"
       /\ subscribed' = (subscribed \/ rc = 0)
  /\ UNCHANGED <<simVars, published, kind, rate, budget, elapsed, wpc, wrun, count,
                 clients, base_clients, batchLeft, open, spc, sweepIdx, stopCalls,
                 faults, progress, finals, setupError, looped, didOp, cycle>>

\* One pass of the device loop: publish_data(), which calls client.publish()
\* and logs its result, and the pacing sleep; a publish_data() that raises
\* ends the worker through except / finally.
DevicePublish ==
  /\ kind = "device"
  /\ wpc = "body"
  /\ \/ wpc' = "test" /\ published' = TRUE /\ UNCHANGED <<wrun, finals, open>>
     \/ Finish /\ UNCHANGED published
  /\ UNCHANGED <<simVars, connack, subscribed, kind, rate, budget, elapsed, count, clients, base_clients,
                 batchLeft, spc, sweepIdx, stopCalls, faults, progress, setupError,
                 looped, didOp, cycle>>

\* One pass of the brute force loop: _attempt_login (connect and disconnect, it
\* swallows its own errors), password_attempts += 1, time.sleep(1 / self.rate)
\* (which divides by zero when the rate is 0), then the progress test.  An
\* exception leaves the loop through except / finally.
BruteAttempt ==
  /\ kind = "bruteforce"
  /\ wpc = "body"
  /\ \/ /\ Finish
        /\ UNCHANGED <<count, didOp, cycle, elapsed, progress>>
     \/ /\ count' = count + 1
        /\ didOp' = TRUE
        /\ cycle' = [cycle EXCEPT !.tried = 1, !.ok = 1, !.raised = (rate = 0)]
        /\ IF rate = 0
             THEN Finish /\ UNCHANGED <<elapsed, progress>>
             ELSE /\ elapsed' = elapsed + 1
                  /\ progress' = Logged(count', BruteMilestone)
                  /\ wpc' = "test"
                  /\ UNCHANGED <<wrun, finals, open>>
  /\ UNCHANGED <<simVars, netVars, kind, rate, budget, clients, base_clients, batchLeft, spc,
                 sweepIdx, stopCalls, faults, setupError, looped>>

\* A failed connect that ends the batch.
ConnAttemptFailed_Halts ==
  cycle' = [cycle EXCEPT !.tried = @ + 1] /\ batchLeft' = 0

\* One pass of the for loop of _flood_connections: client.connect(); on
\* success the client is appended to self.clients and operations_count += 1,
\* a connect that raises is swallowed ("except: pass") and the batch goes on.
ConnAttemptFailed ==
  cycle' = [cycle EXCEPT !.tried = @ + 1] /\ batchLeft' = batchLeft - 1

ConnAttempt ==
  /\ kind = "connection"
  /\ wpc = "body"
  /\ batchLeft > 0
  /\ \/ /\ clients' = clients + 1
        /\ open' = open + 1
        /\ count' = count + 1
        /\ didOp' = TRUE
        /\ cycle' = [cycle EXCEPT !.tried = @ + 1, !.ok = @ + 1]
        /\ batchLeft' = batchLeft - 1
     \/ /\ ConnAttemptFailed
        /\ UNCHANGED <<clients, open, count, didOp>>
  /\ UNCHANGED <<simVars, netVars, kind, rate, budget, elapsed, wpc, wrun, base_clients, spc,
                 sweepIdx, stopCalls, faults, progress, finals, setupError, looped>>

\* After the batch: the progress test and time.sleep(1).
ConnReport ==
  /\ kind = "connection"
  /\ wpc = "body"
  /\ batchLeft = 0
  /\ progress' = Logged(count, ConnMilestone)
  /\ elapsed' = elapsed + 1
  /\ wpc' = "test"
  /\ UNCHANGED <<simVars, netVars, kind, rate, budget, wrun, count, clients, base_clients,
                 batchLeft, open, spc, sweepIdx, stopCalls, faults, finals, setupError,
                 looped, didOp, cycle>>

\* One pass of the pool loop of _flood_publish: a client that connects is
\* started and appended to base_clients; one that raises is skipped.
PubConnect ==
  /\ kind = "publish"
  /\ wpc = "setup"
  /\ batchLeft > 0
  /\ \/ base_clients' = base_clients + 1 /\ open' = open + 1
     \/ UNCHANGED <<base_clients, open>>
  /\ batchLeft' = batchLeft - 1
  /\ UNCHANGED <<simVars, netVars, kind, rate, budget, elapsed, wpc, wrun, count, clients, spc,
                 sweepIdx, stopCalls, faults, progress, finals, setupError, looped,
                 didOp, cycle>>

\* The end of the pool loop without the test for an empty pool.
PubSetupDone_NoCheck ==
  /\ kind = "publish"
  /\ wpc = "setup"
  /\ batchLeft = 0
  /\ wpc' = "test"
  /\ UNCHANGED <<simVars, netVars, kind, rate, budget, elapsed, count, clients, base_clients,
                 batchLeft, spc, sweepIdx, stopCalls, faults, progress, looped, didOp,
                 cycle, setupError, wrun, finals, open>>

\* "if not base_clients: logger.error(...); return": with an empty pool
\* _flood_publish returns to start(), which logs its "finished" line.
PubSetupDone ==
  /\ kind = "publish"
  /\ wpc = "setup"
  /\ batchLeft = 0
  /\ IF base_clients = 0
       THEN setupError' = TRUE /\ Finish
       ELSE wpc' = "test" /\ UNCHANGED <<setupError, wrun, finals, open>>
  /\ UNCHANGED <<simVars, netVars, kind, rate, budget, elapsed, count, clients, base_clients,
                 batchLeft, spc, sweepIdx, stopCalls, faults, progress, looped, didOp,
                 cycle>>

\* The publish calls of a cycle that may raise, by the number of calls counted
\* before them: the first, the second, the first of the second half, the last.
RaisePoints ==
  {k \in 0..(CycleSize - 1) : k \in {0, 1, CycleSize \div 2, CycleSize - 1}}

\* One pass of the publish loop.  Complete: every pooled client publishes on
\* every topic, operations_count += 1 after each publish, then the progress
\* test and time.sleep(1).  Cut short: the publish after k counted ones raises,
\* "except Exception" logs it, and the pass ends without test or sleep.
PubCycle ==
  /\ kind = "publish"
  /\ wpc = "body"
  /\ \/ /\ count' = count + CycleSize
        /\ didOp' = TRUE
        /\ cycle' = [cycle EXCEPT !.tried = CycleSize, !.ok = CycleSize]
        /\ progress' = Logged(count', PubMilestone)
        /\ elapsed' = elapsed + 1
        /\ UNCHANGED faults
     \/ /\ faults < MaxFaults
        /\ \E k \in RaisePoints :
             /\ count' = count + k
             /\ didOp' = (didOp \/ k > 0)
             /\ cycle' = [cycle EXCEPT !.tried = k + 1, !.ok = k, !.raised = TRUE]
        /\ faults' = faults + 1
        /\ UNCHANGED <<progress, elapsed>>
  /\ wpc' = "test"
  /\ UNCHANGED <<simVars, netVars, kind, rate, budget, wrun, clients, base_clients, batchLeft,
                 open, spc, sweepIdx, stopCalls, finals, setupError, looped>>

\* A close that raises and ends the cleanup loop.
PubCloseFailed_Aborts == batchLeft' = 0 /\ open' = open - 1

\* "for client in base_clients: try: loop_stop(); disconnect() except: pass":
\* one pass closes one pooled client; a close that raises is swallowed.
PubCloseFailed == batchLeft' = batchLeft - 1 /\ open' = open - 1

PubClose ==
  /\ kind = "publish"
  /\ wpc = "cleanup"
  /\ batchLeft > 0
  /\ \/ batchLeft' = batchLeft - 1 /\ open' = open - 1
     \/ PubCloseFailed
  /\ UNCHANGED <<simVars, netVars, kind, rate, budget, elapsed, wpc, wrun, count, clients,
                 base_clients, spc, sweepIdx, stopCalls, faults, progress, finals,
                 setupError, looped, didOp, cycle>>

\* The pool is closed: _flood_publish returns and start() logs "finished".
PubDone ==
  /\ kind = "publish"
  /\ wpc = "cleanup"
  /\ batchLeft = 0
  /\ Finish
  /\ UNCHANGED <<simVars, netVars, kind, rate, budget, elapsed, count, clients, base_clients,
                 batchLeft, spc, sweepIdx, stopCalls, faults, progress, setupError,
                 looped, didOp, cycle>>

\* A stop() that also zeroes the counter.
StopCall_ResetsCount ==
  /\ kind # "none"
  /\ spc = "idle"
  /\ stopCalls < MaxStops
  /\ stopCalls' = stopCalls + 1
  /\ wrun' = FALSE
  /\ count' = 0
  /\ open' = IF kind = "device" THEN 0 ELSE open
  /\ spc' = IF kind \in {"connection", "publish"} THEN "sweep" ELSE "idle"
  /\ sweepIdx' = 0
  /\ UNCHANGED <<simVars, netVars, kind, rate, budget, elapsed, wpc, clients,
                 base_clients, batchLeft, faults, progress, finals, setupError, looped,
                 didOp, cycle>>

\* stop() is called on the actor.  IoTDevice.stop(): run-flag off, loop_stop(),
\* disconnect().  BruteForceAttack.stop(): run-flag off.  DDoSAttack.stop():
\* run-flag off, then the loop over self.clients.
StopCall ==
  /\ kind # "none"
  /\ spc = "idle"
  /\ stopCalls < MaxStops
  /\ stopCalls' = stopCalls + 1
  /\ wrun' = FALSE
  /\ open' = IF kind = "device" THEN 0 ELSE open
  /\ spc' = IF kind \in {"connection", "publish"} THEN "sweep" ELSE "idle"
  /\ sweepIdx' = 0
  /\ UNCHANGED <<simVars, netVars, kind, rate, budget, elapsed, wpc, count, clients,
                 base_clients, batchLeft, faults, progress, finals, setupError, looped,
                 didOp, cycle>>

\* "for client in self.clients: try: client.disconnect() except: pass": one
\* pass; the loop also reaches a client appended while it runs.
StopSweep ==
  /\ spc = "sweep"
  /\ IF sweepIdx < clients
       THEN /\ sweepIdx' = sweepIdx + 1
            /\ open' = open - 1
            /\ UNCHANGED spc
       ELSE /\ spc' = "drop"
            /\ UNCHANGED <<sweepIdx, open>>
  /\ UNCHANGED <<simVars, netVars, kind, rate, budget, elapsed, wpc, wrun, count, clients,
                 base_clients, batchLeft, stopCalls, faults, progress, finals,
                 setupError, looped, didOp, cycle>>

\* "self.clients = []" and the return of DDoSAttack.stop().
StopDrop ==
  /\ spc = "drop"
  /\ clients' = 0
  /\ sweepIdx' = 0
  /\ spc' = "idle"
  /\ UNCHANGED <<simVars, netVars, kind, rate, budget, elapsed, wpc, wrun, count, base_clients,
                 batchLeft, open, stopCalls, faults, progress, finals, setupError,
                 looped, didOp, cycle>>

\* The steps of the worker thread and of the stopping thread.
WorkerStep ==
  \/ WStart
  \/ LoopTest
  \/ DeviceConnect
  \/ DevicePublish
  \/ BruteAttempt
  \/ ConnAttempt
  \/ ConnReport
  \/ PubConnect
  \/ PubSetupDone
  \/ PubCycle
  \/ PubClose
  \/ PubDone

StopperStep == StopCall \/ StopSweep \/ StopDrop

\* The step of the network loop thread of a device's client.
NetworkStep == OnConnect

NextActor == WorkerStep \/ StopperStep \/ NetworkStep

\* One actor, its worker thread and a thread that stops it.
SpecActor == InitActor /\ [][NextActor]_vars

\* The same, with a worker thread that is scheduled again and again.
SpecActorFair == SpecActor /\ WF_vars(WorkerStep)

\* Both views: the program around its actors, and each actor on its own.
SpecAll == (Init \/ InitActor) /\ [][Next \/ NextActor]_vars

\* ==================================================================== claims
\* The step in which caller c enters stop().
EnterStep(c) ==
  IF c = "ext"
    THEN extCalls' # extCalls
    ELSE /\ mainPc \in {"run_finally", "main_stop"}
         /\ stopPhase["main"] = "idle"
         /\ interrupts' = interrupts
         /\ (mainPc' # mainPc \/ stopPhase'["main"] # "idle")

\* The step in which caller c calls stop() on the actor its loop has reached.
DeviceSignal(c) == stopPhase[c] = "dev" /\ stopIdx'[c] = stopIdx[c] + 1
AttackSignal(c) == stopPhase[c] = "atk" /\ stopIdx'[c] = stopIdx[c] + 1

\* C1: stop() is idempotent.  Once a stop() call has returned (and run() has
\* not begun since), the run-flag is false, and a stop() call that begins then
\* returns at once: it leaves the run-flag false, enters neither loop and
\* changes no device and no attack actor (no stop signal is issued).
C1_StopIdempotent ==
  [][stopsDone >= 1 =>
       /\ ~running
       /\ \A c \in Callers :
            EnterStep(c) => /\ stopPhase'[c] = "idle"
                            /\ ~running'
                            /\ dev' = dev
                            /\ atk' = atk]_vars

\* A second stop() call has returned after a first one that signalled a device.
C1_Witness ==
  /\ stopsDone = 2
  /\ ~running
  /\ \E d \in Devs : dev[d].signaled

\* C2: the Running->Stopping transition happens exactly once.  A stop() call
\* that begins while another call is inside stop() returns at once, and no
\* device and no attack actor is signalled by the orchestrator a second time.
C2_StoppingOnce ==
  [][\A c \in Callers :
       /\ (EnterStep(c) /\ \E o \in Callers \ {c} : stopPhase[o] # "idle")
             => stopPhase'[c] = "idle"
       /\ DeviceSignal(c) => ~dev[devices[stopIdx[c]]].signaled
       /\ AttackSignal(c) => ~atk[attack_threads[stopIdx[c]]].signaled]_vars

\* C3: an actor's run-flag, once stop() has cleared it, never becomes true again.
C3_FlagNeverSetAgain ==
  [][/\ \A d \in Devs : (DevStopped(d) /\ ~dev[d].running) => ~dev'[d].running
     /\ \A a \in Atks : (AtkStopped(a) /\ ~atk[a].running) => ~atk'[a].running]_vars

\* C4: after stop() has returned on an actor, the actor begins no new pass of
\* its loop; only the pass that was pending at the stop may still be carried out.
C4_NoPassAfterStop ==
  [][/\ \A d \in Devs : DevStopped(d) => ~(dev[d].pc # "body" /\ dev'[d].pc = "body")
     /\ \A a \in Atks : AtkStopped(a) => ~(atk[a].pc # "body" /\ atk'[a].pc = "body")]_vars

\* The step in which caller c's stop() clears the run-flag and returns.
ReturnStep(c) ==
  stopPhase[c] = "clear" /\ stopPhase'[c] = "idle" /\ interrupts' = interrupts

\* C5: a stop() that runs from Running signals the devices, then the attack
\* actors (it never goes back to the devices), and when it returns every owned
\* device and attack actor has been signalled and the run-flag is false.
C5_StopSignalsAll ==
  [][\A c \in Callers :
       /\ stopPhase[c] \in {"atk", "clear"} => stopPhase'[c] # "dev"
       /\ ReturnStep(c) =>
            /\ ~running'
            /\ \A i \in 1..Len(devices') : dev'[devices'[i]].signaled
            /\ \A j \in 1..Len(attack_threads') :
                 atk'[attack_threads'[j]].signaled]_vars

\* C6: the activation offsets are measured from the start of run().  Once the
\* elapsed time since run() began has reached the attack's share of the total
\* duration (25% brute force, 50% DDoS; taken for the configurations whose
\* share is not below the stabilization delay), its activation is due.
C6_OffsetFromRunStart ==
  \A a \in Atks :
    (/\ timer[a] = "pending"
     /\ Delay(a) >= StabilizationDelay
     /\ now - start_time >= Delay(a)) => timerLeft[a] = 0

\* C7: no attack actor exists before the stabilization delay is over: whenever
\* an attack actor has been created, at least 10 seconds have passed since
\* run() began and the worker of every configured device has been launched.
C7_AttacksAfterStabilization ==
  \A a \in Atks :
    atk[a].pc # "none" =>
      /\ now - start_time >= StabilizationDelay
      /\ Len(devices) = config.devices
      /\ \A i \in 1..Len(devices) : dev[devices[i]].pc \notin {"absent", "created"}

C7_Witness ==
  \E a \in Atks :
    /\ atk[a].pc = "body"
    /\ atk[a].t0 - start_time >= StabilizationDelay
    /\ \E d \in Devs : dev[d].pc = "body"

\* C8: shutdown does not cancel a pending timer.  A pending timer stays
\* pending until it fires, whatever stop() does; a timer that is due while the
\* orchestrator is Stopped can fire, its firing creates the attack actor and
\* hands it to its worker, and an actor born that way is never signalled.
C8_TimersSurviveShutdown ==
  [][\A a \in Atks :
       /\ timer[a] = "pending" => timer'[a] \in {"pending", "fired"}
       /\ (timer[a] = "pending" /\ timerLeft[a] = 0 /\ Stopped /\ Alive)
             => ENABLED TimerFire(a)
       /\ (timer[a] = "pending" /\ timer'[a] = "fired" /\ Stopped)
             => /\ atk'[a].pc = "start"
                /\ atk'[a].late
                /\ \E i \in 1..Len(attack_threads') : attack_threads'[i] = a
       /\ atk[a].late => (atk'[a].late /\ ~atk'[a].signaled)]_vars

C8_Witness ==
  \E a \in Atks :
    /\ atk[a].late
    /\ atk[a].pc = "body"
    /\ atk[a].running
    /\ ~atk[a].signaled
    /\ Stopped
    /\ stopsDone >= 1

\* C9: however the simulation ends, when the process exits every device that
\* was created has received the orchestrator's stop signal and the
\* orchestrator's run-flag is false.
C9_ShutdownBeforeExit ==
  mainPc = "exited" =>
    /\ ~running
    /\ \A i \in 1..Len(devices) : dev[devices[i]].signaled

\* The step in which the worker of device d / attack a ends on a fault.
DeviceFault(d) == dev[d].pc # "failed" /\ dev'[d].pc = "failed"
AttackFault(a) == atk[a].pc # "failed" /\ atk'[a].pc = "failed"

\* C10: a fault in one actor ends that actor's loop only: the step changes no
\* other actor, not the orchestrator's run-flag, not the position of run() and
\* no stop() in progress; and run() leaves its monitoring loop only when the
\* duration has elapsed, the run-flag has been cleared or an interrupt arrives.
C10_FaultsContained ==
  [][/\ \A d \in Devs :
          DeviceFault(d) =>
            /\ \A e \in Devs \ {d} : dev'[e] = dev[e]
            /\ atk' = atk
            /\ UNCHANGED <<running, mainPc, stopPhase, stopIdx>>
     /\ \A a \in Atks :
          AttackFault(a) =>
            /\ \A b \in Atks \ {a} : atk'[b] = atk[b]
            /\ dev' = dev
            /\ UNCHANGED <<running, mainPc, stopPhase, stopIdx>>
     /\ (mainPc \in {"monitor", "monitor_sleep"}
           /\ mainPc' \notin {"monitor", "monitor_sleep"})
          => \/ now >= start_time + config.duration
             \/ ~running
             \/ interrupts' # interrupts]_vars

C10_Witness ==
  /\ mainPc = "monitor_sleep"
  /\ running
  /\ \E d, e \in Devs :
       /\ dev[d].pc = "failed"
       /\ dev[e].pc = "body"
       /\ dev[e].running

\* C11: in connection-flood mode a cycle attempts at most min(10, rate / 10)
\* connections; a failed attempt counts as an attempt and the batch goes on
\* after it (attempts made plus attempts left is always the batch size); the
\* operation counter is its value at the start of the cycle plus the number of
\* connections of the cycle that succeeded.
C11_ConnectionBatch ==
  kind = "connection" =>
    /\ cycle.tried <= BatchCap
    /\ cycle.tried * 10 <= rate
    /\ wpc = "body" => cycle.tried + batchLeft = Min({BatchCap, rate \div 10})
    /\ cycle.ok <= cycle.tried
    /\ count = cycle.base + cycle.ok

C11_Witness ==
  /\ kind = "connection"
  /\ rate = 200
  /\ wpc = "body"
  /\ batchLeft = 0
  /\ cycle.tried = BatchCap
  /\ cycle.ok \in 1..(BatchCap - 1)
  /\ cycle.base > 0

\* A pass of the publish loop, from its start to the next test of the loop.
PubCycleStep == kind = "publish" /\ wpc = "body" /\ wpc' = "test"

C13_EmptyPoolExits ==
  /\ [](kind = "publish" /\ base_clients = 0 /\ wpc \notin {"idle", "setup"}
          => /\ wpc = "returned"
             /\ setupError
             /\ ~looped
             /\ ~didOp
             /\ count = 0)
  /\ [][\A a \in Atks :
          /\ (atk[a].pc = "setup" /\ atk'[a].pc = "failed")
               => /\ dev' = dev
                  /\ \A b \in Atks \ {a} : atk'[b] = atk[b]
                  /\ UNCHANGED <<running, mainPc, stopPhase, stopIdx, devices,
                                 attack_threads, timer>>
          /\ atk[a].pc = "failed" => atk'[a].pc = "failed"]_vars

C13_Witness ==
  /\ kind = "publish"
  /\ wpc = "returned"
  /\ base_clients = 0
  /\ setupError
  /\ finals = 1

\* C14: when the publish flood has left its loop and returned - the duration
\* over, the run-flag cleared, with or without a publish that raised on the
\* way - a close has been made on every pooled connection established at
\* setup, whether or not one of the closes failed.
C14_PoolClosed ==
  (kind = "publish" /\ wpc = "returned") => (open = 0 /\ batchLeft = 0)

C14_Witness ==
  /\ kind = "publish"
  /\ wpc = "returned"
  /\ base_clients = PoolSize
  /\ faults > 0
  /\ looped
  /\ open = 0

\* stop() has been called on the actor and has returned.
StopReturned == stopCalls >= 1 /\ spc = "idle"

\* C15: in connection-flood mode, once stop() has returned and the flood
\* worker has left its loop, a close has been made on every connection the
\* actor opened, however the two threads interleaved.
C15_StopClosesAll ==
  (kind = "connection" /\ StopReturned /\ wpc = "returned") => open = 0

\* C16: no connection outlives the loop of its actor: when the worker of any
\* actor has left its loop and returned - normal completion, duration over or
\* stop signal - every connection the actor opened has been closed.
C16_ReleaseOnExit ==
  wpc = "returned" => open = 0

\* C17: the brute force worker always terminates.  At each test of its loop it
\* leaves the loop exactly when the elapsed time has reached the duration or
\* the run-flag reads false; it never runs past its duration; the line with
\* the final attempt count is logged exactly once, when the worker ends, on
\* every way out, and the run-flag is false from then on.
C17_BruteTerminates ==
  /\ [](kind = "bruteforce" =>
          /\ elapsed <= budget
          /\ finals = (IF wpc = "returned" THEN 1 ELSE 0)
          /\ wpc = "returned" => ~wrun)
  /\ [][(kind = "bruteforce" /\ wpc = "test" /\ wpc' # "test") =>
          (wpc' = "returned" <=> ~(wrun /\ elapsed < budget))]_vars
  /\ (kind = "bruteforce" ~> wpc = "returned")

C17_Witness ==
  /\ kind = "bruteforce"
  /\ wpc = "returned"
  /\ finals = 1
  /\ stopCalls = 1
  /\ count >= BruteMilestone
  /\ elapsed < budget

\* C18: the operation counter of an attack actor (password_attempts,
\* operations_count) never goes down, and once an operation has been counted
\* it is never zero again.
C18_CounterMonotone ==
  [][(kind \in {"bruteforce", "connection", "publish"}) =>
       /\ count' >= count
       /\ (didOp => count > 0)
       /\ (didOp' => count' > 0)]_vars

C18_Witness ==
  /\ kind = "connection"
  /\ didOp
  /\ count > 0
  /\ StopReturned
  /\ wpc = "returned"

\* The worker thread of device d has been started.
Launched(d) == dev[d].pc \notin {"absent", "created"}

\* C19: run() creates exactly config.devices device actors (never more, and
\* all of them once create_devices() is through) and starts their workers in
\* creation order, all of them before it goes on; the orchestrator owns at
\* most one attack actor of each kind, only of the kinds that are enabled, and
\* none at all when both attacks are disabled.
C19_ActorCounts ==
  /\ Len(devices) <= config.devices
  /\ \A i \in 1..Len(devices) : devices[i] = i
  /\ \A d \in Devs : dev[d].pc # "absent" <=> d <= Len(devices)
  /\ (interrupts = 0 /\ mainPc \notin {"main", "create"})
        => Len(devices) = config.devices
  /\ (interrupts = 0 /\ mainPc \notin {"main", "create", "launch"})
        => \A d \in 1..config.devices : Launched(d)
  /\ \A i, j \in 1..Len(devices) : (i < j /\ Launched(j)) => Launched(i)
  /\ Len(attack_threads) <= 2
  /\ \A i, j \in 1..Len(attack_threads) :
       i # j => attack_threads[i] # attack_threads[j]
  /\ \A a \in Atks :
       /\ atk[a].pc # "none" <=> \E i \in 1..Len(attack_threads) : attack_threads[i] = a
       /\ atk[a].pc # "none" => Enabled(a)
  /\ (~config.bruteforce /\ ~config.ddos) => attack_threads = <<>>

C19_Witness ==
  /\ config.devices = 2
  /\ Len(devices) = 2
  /\ \A d \in 1..2 : dev[d].pc = "body"
  /\ config.ddos
  /\ ~config.bruteforce
  /\ attack_threads = <<"ddos">>
  /\ atk["ddos"].pc = "body"

\* The milestone step of the actor's progress lines.
Milestone ==
  CASE kind = "bruteforce" -> BruteMilestone
    [] kind = "connection" -> ConnMilestone
    [] OTHER -> PubMilestone

\* The end of a pass of an attack actor's loop.
PassEnd ==
  /\ kind \in {"bruteforce", "connection", "publish"}
  /\ wpc = "body"
  /\ wpc' = "test"

\* C20: progress is logged at the milestones of the counter: a pass of the
\* loop logs a progress line exactly when the counter has, in that pass,
\* reached or passed a new multiple of the actor's milestone step (10 brute
\* force, 50 connection flood, 100 publish flood).
C20_ProgressAtMilestones ==
  [][PassEnd =>
       ((progress' # progress)
          <=> (count' \div Milestone > cycle'.base \div Milestone))]_vars

\* C21: a device's start() connects, then subscribes to its command topic,
\* then runs its publish loop: whenever the device has issued a telemetry
\* publish, the subscription to its command topic has been issued already.
C21_SubscribeBeforePublish ==
  (kind = "device" /\ published) => subscribed

\* The step in which caller c's stop() returns at once, at "if not
\* self.running: return".
GuardReturn(c) == EnterStep(c) /\ stopPhase'[c] = "idle"

\* The step in which caller c's stop() leaves its loop over attack_threads.
AttackLoopEnd(c) == stopPhase[c] = "atk" /\ stopPhase'[c] = "clear"

\* C22: ownership of the attack registry.  An attack actor is in the
\* orchestrator's attack list from the moment its worker thread exists, and a
\* stop() that begins after an attack was launched signals that attack: a
\* stop() that returns at once leaves no launched attack unsignalled, and one
\* that walks the list has signalled every attack in it when the walk ends.
C22_AttackOwnership ==
  [][/\ \A a \in Atks :
          atk'[a].pc # "none" =>
            \E i \in 1..Len(attack_threads') : attack_threads'[i] = a
     /\ \A c \in Callers :
          /\ GuardReturn(c) =>
               \A a \in Atks : atk[a].pc # "none" => atk'[a].signaled
          /\ AttackLoopEnd(c) =>
               \A j \in 1..Len(attack_threads) :
                 atk'[attack_threads[j]].signaled]_vars

====
